---- MODULE Spec2Model ----
(***************************************************************************)
(* Cosmic Scrapper (src/new.py): the game state of CosmicScrapperApp and   *)
(* its handlers click_ship, buy_upgrade, check_task, game_tick, save_game, *)
(* load_game and reset_game.                                               *)
(*                                                                         *)
(* Number representation.  The program keeps scrap, the two rates and the  *)
(* station progress in Python floats.  Every scrap amount the handlers can *)
(* produce from whole-second ticks is a multiple of 0.5, and every         *)
(* progress amount a multiple of 0.001, so the model keeps them as exact   *)
(* integers: scrap-valued fields count halves of a scrap (ScrapUnit per    *)
(* scrap) and station_progress counts thousandths of a point (ProgressUnit *)
(* per point).  Literals of the source appear as  literal * unit.          *)
(*                                                                         *)
(* lastOp is a history variable: the handler that ran last, its argument   *)
(* and the dialog it showed (msg).                                         *)
(***************************************************************************)
EXTENDS Integers, Sequences, FiniteSets, TLC

VARIABLES scrap, scrap_per_click, scrap_per_second, upgrades, tasks,
          station_progress, total_clicks, total_scrap_earned,
          task_buttons, savefile, lastOp

gameVars == <<scrap, scrap_per_click, scrap_per_second, upgrades, tasks,
              station_progress, total_clicks, total_scrap_earned>>
vars == <<scrap, scrap_per_click, scrap_per_second, upgrades, tasks,
          station_progress, total_clicks, total_scrap_earned,
          task_buttons, savefile, lastOp>>

----------------------------------------------------------------------------
(* Fixed-point units *)
ScrapUnit == 2
ProgressUnit == 1000

(* Bounds of the model.  A run starts either with no save file or with the *)
(* save an earlier run left after ResumeClicks clicks; it is explored for  *)
(* at most MaxClicks clicks beyond either starting point.                  *)
MaxClicks == 1
ResumeClicks == 49
MaxUpgrades == 2
MaxScrap == 300000
MaxEarned == 300000
MaxSavedEarned == 51
ElapsedValues == {0, 95000}
(* Largest owned count the price curve is compared at *)
MaxCount == 3

----------------------------------------------------------------------------
(* Python dict access: d.get(k, default) and d[k] = v *)
Get(d, k, default) == IF k \in DOMAIN d THEN d[k] ELSE default

(* Variant: the assignment replaces the dict by one holding only the key *)
Put_only(d, k, v) == [x \in {k} |-> v]
Put(d, k, v) == [x \in (DOMAIN d) \cup {k} |-> IF x = k THEN v ELSE d[x]]
EmptyDict == << >>

Min(a, b) == IF a <= b THEN a ELSE b

(* (a * m) \div d, exact, without forming the product a * m *)
ScaledDiv(a, m, d) == (a \div d) * m + ((a % d) * m) \div d

RECURSIVE Pow(_, _)
Pow(b, n) == IF n = 0 THEN 1 ELSE b * Pow(b, n - 1)

----------------------------------------------------------------------------
(* Catalogs *)
UPGRADE_DEFS ==
  [ laser_tools     |-> [base_cost |-> 10,   effect_type |-> "click",    effect_value |-> 1 * ScrapUnit],
    magnet_drones   |-> [base_cost |-> 50,   effect_type |-> "aps",      effect_value |-> ScrapUnit \div 2],
    scrap_refinery  |-> [base_cost |-> 200,  effect_type |-> "aps",      effect_value |-> 2 * ScrapUnit],
    reinforced_hull |-> [base_cost |-> 150,  effect_type |-> "click",    effect_value |-> 5 * ScrapUnit],
    station_module  |-> [base_cost |-> 1000, effect_type |-> "progress", effect_value |-> 10 * ProgressUnit] ]
UpgradeIds == DOMAIN UPGRADE_DEFS

TASK_DEFS ==
  [ collect_100 |-> [ttype |-> "scrap_total",      tval |-> 100 * ScrapUnit,   reward |-> 50 * ScrapUnit],
    click_50    |-> [ttype |-> "clicks",           tval |-> 50,                reward |-> 30 * ScrapUnit],
    build_25    |-> [ttype |-> "station_progress", tval |-> 25 * ProgressUnit, reward |-> 100 * ScrapUnit] ]
TaskIds == DOMAIN TASK_DEFS

(* Variant: the growth factor is multiplied by the count, not raised to it *)
cost_linear(u, owned) == (UPGRADE_DEFS[u].base_cost * 16 * owned) \div 10

(* Upgrade.cost: int(base_cost * 1.6 ** owned), in whole scrap *)
cost(u, owned) == (UPGRADE_DEFS[u].base_cost * Pow(16, owned)) \div Pow(10, owned)

----------------------------------------------------------------------------
(* Variant: the check button is created whatever the status *)
populate_tasks_all(t) == TaskIds

(* populate_tasks: a check button exists for every task not shown as done *)
populate_tasks(t) == {tid \in TaskIds : Get(t, tid, "incomplete") # "done"}

(* Variant: the owned counts are left out of the saved state *)
to_dict_no_upgrades ==
  [ scrap |-> scrap, scrap_per_click |-> scrap_per_click,
    scrap_per_second |-> scrap_per_second,
    tasks |-> tasks, station_progress |-> station_progress ]

(* GameState.to_dict / from_dict and the record written by save_game *)
to_dict ==
  [ scrap |-> scrap, scrap_per_click |-> scrap_per_click,
    scrap_per_second |-> scrap_per_second, upgrades |-> upgrades,
    tasks |-> tasks, station_progress |-> station_progress ]

(* Variant: scrap_per_second is read from the key of scrap_per_click *)
from_dict_wrong_key(d) ==
  [ scrap |-> Get(d, "scrap", 0),
    scrap_per_click |-> Get(d, "scrap_per_click", 1 * ScrapUnit),
    scrap_per_second |-> Get(d, "scrap_per_click", 0),
    upgrades |-> Get(d, "upgrades", EmptyDict),
    tasks |-> Get(d, "tasks", EmptyDict),
    station_progress |-> Get(d, "station_progress", 0) ]

from_dict(d) ==
  [ scrap |-> Get(d, "scrap", 0),
    scrap_per_click |-> Get(d, "scrap_per_click", 1 * ScrapUnit),
    scrap_per_second |-> Get(d, "scrap_per_second", 0),
    upgrades |-> Get(d, "upgrades", EmptyDict),
    tasks |-> Get(d, "tasks", EmptyDict),
    station_progress |-> Get(d, "station_progress", 0) ]

save_data ==
  [ state |-> to_dict, total_clicks |-> total_clicks,
    total_scrap_earned |-> total_scrap_earned ]

(* GameState.__init__ with the two counters CosmicScrapperApp.__init__ sets *)
Fresh ==
  [ scrap |-> 0, scrap_per_click |-> 1 * ScrapUnit, scrap_per_second |-> 0,
    upgrades |-> EmptyDict, tasks |-> EmptyDict, station_progress |-> 0,
    total_clicks |-> 0, total_scrap_earned |-> 0 ]

(* Variant: the click counter is looked up under a key the file lacks *)
Loaded_no_clicks(data) ==
  LET g == from_dict(Get(data, "state", EmptyDict))
  IN [ scrap |-> g.scrap, scrap_per_click |-> g.scrap_per_click,
       scrap_per_second |-> g.scrap_per_second, upgrades |-> g.upgrades,
       tasks |-> g.tasks, station_progress |-> g.station_progress,
       total_clicks |-> Get(data, "clicks", 0),
       total_scrap_earned |-> Get(data, "total_scrap_earned", 0) ]

(* What __init__ and load_game read back from the parsed save file *)
Loaded(data) ==
  LET g == from_dict(Get(data, "state", EmptyDict))
  IN [ scrap |-> g.scrap, scrap_per_click |-> g.scrap_per_click,
       scrap_per_second |-> g.scrap_per_second, upgrades |-> g.upgrades,
       tasks |-> g.tasks, station_progress |-> g.station_progress,
       total_clicks |-> Get(data, "total_clicks", 0),
       total_scrap_earned |-> Get(data, "total_scrap_earned", 0) ]

(* The save file found at start-up: none, or the one on_close wrote at the *)
(* end of an earlier run that clicked the ship ResumeClicks times from the *)
(* fresh state and did nothing else (each click adds scrap_per_click = 1.0 *)
(* to scrap and to total_scrap_earned).                                    *)
ResumeSave ==
  [ state |-> [ scrap |-> ResumeClicks * (1 * ScrapUnit),
                scrap_per_click |-> 1 * ScrapUnit,
                scrap_per_second |-> 0,
                upgrades |-> EmptyDict, tasks |-> EmptyDict,
                station_progress |-> 0 ],
    total_clicks |-> ResumeClicks,
    total_scrap_earned |-> ResumeClicks * (1 * ScrapUnit) ]
StartupFiles == { << >>, <<ResumeSave>> }

SetGame(g) ==
  /\ scrap' = g.scrap
  /\ scrap_per_click' = g.scrap_per_click
  /\ scrap_per_second' = g.scrap_per_second
  /\ upgrades' = g.upgrades
  /\ tasks' = g.tasks
  /\ station_progress' = g.station_progress
  /\ total_clicks' = g.total_clicks
  /\ total_scrap_earned' = g.total_scrap_earned

----------------------------------------------------------------------------
Init ==
  \E f \in StartupFiles :
    LET g == IF Len(f) = 0 THEN Fresh ELSE Loaded(f[1])
    IN /\ savefile = f
       /\ scrap = g.scrap
       /\ scrap_per_click = g.scrap_per_click
       /\ scrap_per_second = g.scrap_per_second
       /\ upgrades = g.upgrades
       /\ tasks = g.tasks
       /\ station_progress = g.station_progress
       /\ total_clicks = g.total_clicks
       /\ total_scrap_earned = g.total_scrap_earned
       /\ task_buttons = populate_tasks(g.tasks)
       /\ lastOp = [op |-> "init", arg |-> "-", msg |-> "none"]

(* Variant: a task whose scrap or click target is met is marked done *)
check_auto_tasks_marks(t, clicks, earned) ==
  LET met == { tid \in TaskIds :
                 \/ /\ TASK_DEFS[tid].ttype = "scrap_total"
                    /\ earned >= TASK_DEFS[tid].tval
                 \/ /\ TASK_DEFS[tid].ttype = "clicks"
                    /\ clicks >= TASK_DEFS[tid].tval }
  IN [ tid \in (DOMAIN t) \cup met |-> IF tid \in met THEN "done" ELSE t[tid] ]

(* check_auto_tasks: the loop finds the tasks whose target is met and then *)
(* does nothing with them (pass); the tasks come back as they were         *)
check_auto_tasks(t, clicks, earned) == t

(* Variant: a click is not added to the lifetime earnings *)
click_ship_unearned ==
  /\ scrap' = scrap + scrap_per_click
  /\ total_clicks' = total_clicks + 1
  /\ total_scrap_earned' = total_scrap_earned
  /\ tasks' = check_auto_tasks(tasks, total_clicks', total_scrap_earned')
  /\ lastOp' = [op |-> "click", arg |-> "-", msg |-> "none"]
  /\ UNCHANGED <<scrap_per_click, scrap_per_second, upgrades,
                 station_progress, task_buttons, savefile>>

click_ship ==
  /\ scrap' = scrap + scrap_per_click
  /\ total_clicks' = total_clicks + 1
  /\ total_scrap_earned' = total_scrap_earned + scrap_per_click
  /\ tasks' = check_auto_tasks(tasks, total_clicks', total_scrap_earned')
  /\ lastOp' = [op |-> "click", arg |-> "-", msg |-> "none"]
  /\ UNCHANGED <<scrap_per_click, scrap_per_second, upgrades,
                 station_progress, task_buttons, savefile>>

(* Variant: the balance test is missing *)
affordable_always(s, c) == TRUE

(* buy_upgrade, line 191: the purchase goes through unless scrap < cost *)
affordable(s, c) == ~(s < c)

(* Variant: the effect is applied without looking at effect_type *)
effect_delta_any(def, kind) == def.effect_value

(* buy_upgrade, lines 197-202: the if/elif chain on effect_type; what the  *)
(* upgrade adds to the field of the given kind                             *)
effect_delta(def, kind) ==
  IF def.effect_type = kind THEN def.effect_value ELSE 0

(* Variant: a purchase that brings the station to 100 pays the reward and *)
(* resets the progress, as game_tick does                                 *)
buy_upgrade_completes(u) ==
  LET owned == Get(upgrades, u, 0)
      c == cost(u, owned) * ScrapUnit
      def == UPGRADE_DEFS[u]
      progress1 == IF def.effect_type = "progress"
                   THEN Min(100 * ProgressUnit,
                            station_progress + effect_delta(def, "progress"))
                   ELSE station_progress
  IN IF ~affordable(scrap, c)
     THEN /\ lastOp' = [op |-> "buy", arg |-> u, msg |-> "insufficient"]
          /\ UNCHANGED <<gameVars, task_buttons, savefile>>
     ELSE /\ upgrades' = Put(upgrades, u, owned + 1)
          /\ scrap_per_click' = scrap_per_click + effect_delta(def, "click")
          /\ scrap_per_second' = scrap_per_second + effect_delta(def, "aps")
          /\ IF progress1 >= 100 * ProgressUnit
             THEN /\ scrap' = scrap - c + 1000 * ScrapUnit
                  /\ station_progress' = 0
                  /\ lastOp' = [op |-> "buy", arg |-> u, msg |-> "station_ready"]
             ELSE /\ scrap' = scrap - c
                  /\ station_progress' = progress1
                  /\ lastOp' = [op |-> "buy", arg |-> u, msg |-> "none"]
          /\ UNCHANGED <<tasks, total_clicks, total_scrap_earned,
                         task_buttons, savefile>>

buy_upgrade(u) ==
  LET owned == Get(upgrades, u, 0)
      c == cost(u, owned) * ScrapUnit
      def == UPGRADE_DEFS[u]
  IN IF ~affordable(scrap, c)
     THEN /\ lastOp' = [op |-> "buy", arg |-> u, msg |-> "insufficient"]
          /\ UNCHANGED <<gameVars, task_buttons, savefile>>
     ELSE /\ scrap' = scrap - c
          /\ upgrades' = Put(upgrades, u, owned + 1)
          /\ scrap_per_click' = scrap_per_click + effect_delta(def, "click")
          /\ scrap_per_second' = scrap_per_second + effect_delta(def, "aps")
          /\ station_progress' =
               IF def.effect_type = "progress"
               THEN Min(100 * ProgressUnit,
                        station_progress + effect_delta(def, "progress"))
               ELSE station_progress
          /\ lastOp' = [op |-> "buy", arg |-> u, msg |-> "none"]
          /\ UNCHANGED <<tasks, total_clicks, total_scrap_earned,
                         task_buttons, savefile>>

(* Variant: the click target must be exceeded, not reached *)
task_complete_strict(tid) ==
  LET tdef == TASK_DEFS[tid]
  IN CASE tdef.ttype = "scrap_total" ->
            total_scrap_earned >= tdef.tval \/ scrap >= tdef.tval
       [] tdef.ttype = "clicks" -> total_clicks > tdef.tval
       [] tdef.ttype = "station_progress" -> station_progress >= tdef.tval
       [] OTHER -> FALSE

(* check_task, lines 213-222: the completion test of the task's target *)
task_complete(tid) ==
  LET tdef == TASK_DEFS[tid]
  IN CASE tdef.ttype = "scrap_total" ->
            total_scrap_earned >= tdef.tval \/ scrap >= tdef.tval
       [] tdef.ttype = "clicks" -> total_clicks >= tdef.tval
       [] tdef.ttype = "station_progress" -> station_progress >= tdef.tval
       [] OTHER -> FALSE

(* check_task is the command of the task's check button, which             *)
(* populate_tasks creates only while the task is not shown as done         *)
check_task(tid) ==
  /\ tid \in task_buttons
  /\ IF task_complete(tid)
     THEN /\ tasks' = Put(tasks, tid, "done")
          /\ scrap' = scrap + TASK_DEFS[tid].reward
          /\ task_buttons' = populate_tasks(tasks')
          /\ lastOp' = [op |-> "check", arg |-> tid, msg |-> "task_done"]
          /\ UNCHANGED <<scrap_per_click, scrap_per_second, upgrades,
                         station_progress, total_clicks, total_scrap_earned,
                         savefile>>
     ELSE /\ lastOp' = [op |-> "check", arg |-> tid, msg |-> "not_ready"]
          /\ UNCHANGED <<gameVars, task_buttons, savefile>>

(* Variant: one point for every 50 scrap *)
progress_gain_of_50(gain) == ScaledDiv(gain, ProgressUnit, 50 * ScrapUnit)

(* game_tick, line 259: every 500 scrap of passive gain is one point *)
progress_gain_of(gain) == ScaledDiv(gain, ProgressUnit, 500 * ScrapUnit)

(* Variant: strictly more than 100 is asked for *)
station_done_strict(p) == p > 100 * ProgressUnit

(* game_tick, line 263: the station is complete *)
station_done(p) == p >= 100 * ProgressUnit

(* Variant: the progress is not capped and every full 100 points pays a *)
(* reward, the remainder carrying over                                 *)
game_tick_wraps(elapsed) ==
  LET gain == scrap_per_second * elapsed
      scrap1 == IF gain # 0 THEN scrap + gain ELSE scrap
      total == station_progress + progress_gain_of(gain)
      cycles == total \div (100 * ProgressUnit)
  IN /\ total_scrap_earned' = IF gain # 0 THEN total_scrap_earned + gain
                                          ELSE total_scrap_earned
     /\ scrap' = scrap1 + cycles * (1000 * ScrapUnit)
     /\ station_progress' = total % (100 * ProgressUnit)
     /\ lastOp' = [op |-> "tick", arg |-> elapsed,
                   msg |-> IF cycles > 0 THEN "station_ready" ELSE "none"]
     /\ UNCHANGED <<scrap_per_click, scrap_per_second, upgrades, tasks,
                    total_clicks, task_buttons, savefile>>

(* elapsed = now - last_tick, in whole seconds *)
game_tick(elapsed) ==
  LET gain == scrap_per_second * elapsed
      scrap1 == IF gain # 0 THEN scrap + gain ELSE scrap
      progress_gain == progress_gain_of(gain)
      progress1 == IF progress_gain # 0
                   THEN Min(100 * ProgressUnit, station_progress + progress_gain)
                   ELSE station_progress
  IN /\ total_scrap_earned' = IF gain # 0 THEN total_scrap_earned + gain
                                          ELSE total_scrap_earned
     /\ IF station_done(progress1)
        THEN /\ scrap' = scrap1 + 1000 * ScrapUnit
             /\ station_progress' = 0
             /\ lastOp' = [op |-> "tick", arg |-> elapsed, msg |-> "station_ready"]
        ELSE /\ scrap' = scrap1
             /\ station_progress' = progress1
             /\ lastOp' = [op |-> "tick", arg |-> elapsed, msg |-> "none"]
     /\ UNCHANGED <<scrap_per_click, scrap_per_second, upgrades, tasks,
                    total_clicks, task_buttons, savefile>>

save_game ==
  /\ savefile' = <<save_data>>
  /\ lastOp' = [op |-> "save", arg |-> "-", msg |-> "saved"]
  /\ UNCHANGED <<gameVars, task_buttons>>

(* lastOp.arg of a load names the handler that ran just before it *)
load_game ==
  IF Len(savefile) = 0
  THEN /\ lastOp' = [op |-> "load", arg |-> lastOp.op, msg |-> "no_save"]
       /\ UNCHANGED <<gameVars, task_buttons, savefile>>
  ELSE /\ SetGame(Loaded(savefile[1]))
       /\ task_buttons' = populate_tasks(tasks')
       /\ lastOp' = [op |-> "load", arg |-> lastOp.op, msg |-> "loaded"]
       /\ UNCHANGED savefile

(* Variant: the save file survives a confirmed reset *)
reset_game_keeps_file(confirmed) ==
  IF confirmed
  THEN /\ UNCHANGED savefile
       /\ SetGame(Fresh)
       /\ task_buttons' = populate_tasks(tasks')
       /\ lastOp' = [op |-> "reset", arg |-> lastOp.op, msg |-> "confirmed"]
  ELSE /\ lastOp' = [op |-> "reset", arg |-> "-", msg |-> "declined"]
       /\ UNCHANGED <<gameVars, task_buttons, savefile>>

(* confirmed: the answer to the askyesno dialog; lastOp.arg of a *)
(* confirmed reset names the handler that ran just before it     *)
reset_game(confirmed) ==
  IF confirmed
  THEN /\ savefile' = << >>
       /\ SetGame(Fresh)
       /\ task_buttons' = populate_tasks(tasks')
       /\ lastOp' = [op |-> "reset", arg |-> lastOp.op, msg |-> "confirmed"]
  ELSE /\ lastOp' = [op |-> "reset", arg |-> "-", msg |-> "declined"]
       /\ UNCHANGED <<gameVars, task_buttons, savefile>>

----------------------------------------------------------------------------
InBounds ==
  /\ \/ total_clicks <= MaxClicks
     \/ /\ total_clicks >= ResumeClicks
        /\ total_clicks <= ResumeClicks + MaxClicks
  /\ Len(savefile) > 0 =>
       savefile[1].total_scrap_earned <= MaxSavedEarned * ScrapUnit
  /\ scrap <= MaxScrap * ScrapUnit
  /\ total_scrap_earned <= MaxEarned * ScrapUnit
  /\ Get(upgrades, "laser_tools", 0) + Get(upgrades, "magnet_drones", 0)
       + Get(upgrades, "scrap_refinery", 0) + Get(upgrades, "reinforced_hull", 0)
       + Get(upgrades, "station_module", 0) <= MaxUpgrades

NextPlay ==
  \/ click_ship /\ InBounds'
  \/ \E u \in UpgradeIds : buy_upgrade(u) /\ InBounds'
  \/ \E tid \in TaskIds : check_task(tid) /\ InBounds'
  \/ \E e \in ElapsedValues : game_tick(e) /\ InBounds'

SpecPlay == Init /\ [][NextPlay]_vars

Next ==
  \/ click_ship /\ InBounds'
  \/ \E u \in UpgradeIds : buy_upgrade(u) /\ InBounds'
  \/ \E tid \in TaskIds : check_task(tid) /\ InBounds'
  \/ \E e \in ElapsedValues : game_tick(e) /\ InBounds'
  \/ save_game /\ InBounds'
  \/ load_game /\ InBounds'
  \/ \E confirmed \in BOOLEAN : reset_game(confirmed) /\ InBounds'

Spec == Init /\ [][Next]_vars

----------------------------------------------------------------------------
(* Vocabulary of the properties *)
Owned(u) == Get(upgrades, u, 0)
Status(tid) == Get(tasks, tid, "incomplete")
CostNow(u) == cost(u, Owned(u)) * ScrapUnit
Bought(u) == lastOp'.op = "buy" /\ lastOp'.arg = u
Checked(tid) == lastOp'.op = "check" /\ lastOp'.arg = tid
Ticked(e) == lastOp'.op = "tick" /\ lastOp'.arg = e

(* C1: scrap is never negative, in every state reachable through click,    *)
(* buy, checkTask, tick (elapsed >= 0), save, load and reset.              *)
C1_ScrapNonNegative == scrap >= 0

(* C1 witness: a purchase that spent the whole balance *)
C1_Witness ==
  /\ lastOp.op = "buy" /\ lastOp.msg = "none"
  /\ scrap = 0

(* C2: after every completed operation 0 <= stationProgress < 100; a state *)
(* with stationProgress = 100 is never observable and never saved.         *)
C2_ProgressBelow100 ==
  /\ station_progress >= 0
  /\ station_progress < 100 * ProgressUnit

C4_RejectedBuyChangesNothing ==
  [][\A u \in UpgradeIds :
       (Bought(u) /\ scrap < CostNow(u)) =>
          /\ lastOp'.msg = "insufficient"
          /\ UNCHANGED <<gameVars, task_buttons, savefile>>]_vars

(* C4 witness: a rejected purchase by a player who holds some scrap *)
C4_Witness ==
  /\ lastOp.op = "buy" /\ lastOp.msg = "insufficient"
  /\ scrap > 0
  /\ scrap < CostNow(lastOp.arg)

(* C5 as stated: a purchase the player can afford takes exactly the cost   *)
(* off scrap, adds 1 to the owned count, and adds exactly effect_value to   *)
(* the field of the upgrade's kind (scrap_per_click, scrap_per_second or    *)
(* station_progress), leaving the other two unchanged.                      *)
C5_BuyAddsExactEffect ==
  [][\A u \in UpgradeIds :
       (Bought(u) /\ scrap >= CostNow(u)) =>
          LET def == UPGRADE_DEFS[u]
              add(kind) == IF def.effect_type = kind THEN def.effect_value ELSE 0
          IN /\ scrap' = scrap - CostNow(u)
             /\ Owned(u)' = Owned(u) + 1
             /\ scrap_per_click' = scrap_per_click + add("click")
             /\ scrap_per_second' = scrap_per_second + add("aps")
             /\ station_progress' = station_progress + add("progress")]_vars

(* C5 amended: as above, except that a progress upgrade sets               *)
(* station_progress to min(100, station_progress + effect_value); other    *)
(* owned counts, the counters and the task statuses are unchanged.         *)
C5_BuyAddsCappedEffect ==
  [][\A u \in UpgradeIds :
       (Bought(u) /\ scrap >= CostNow(u)) =>
          LET def == UPGRADE_DEFS[u]
              add(kind) == IF def.effect_type = kind THEN def.effect_value ELSE 0
          IN /\ scrap' = scrap - CostNow(u)
             /\ Owned(u)' = Owned(u) + 1
             /\ \A v \in UpgradeIds \ {u} : Owned(v)' = Owned(v)
             /\ scrap_per_click' = scrap_per_click + add("click")
             /\ scrap_per_second' = scrap_per_second + add("aps")
             /\ station_progress' =
                  Min(100 * ProgressUnit, station_progress + add("progress"))
             /\ UNCHANGED <<tasks, total_clicks, total_scrap_earned>>]_vars

(* C5 witness: a station module bought at 95 points, which the cap cut to 5 *)
C5_Witness ==
  /\ lastOp.op = "buy" /\ lastOp.arg = "station_module" /\ lastOp.msg = "none"
  /\ station_progress = 100 * ProgressUnit
  /\ Owned("station_module") = 1

(* C6 as stated: once a task is done it stays done after every click, buy, *)
(* checkTask, tick, save and load (everything but a confirmed reset).      *)
C6_DoneStaysDoneAcrossLoad ==
  [][~(lastOp'.op = "reset" /\ lastOp'.msg = "confirmed") =>
       \A tid \in TaskIds : Status(tid) = "done" => Status(tid)' = "done"]_vars

(* C6 amended: once a task is done it stays done after every click, buy,   *)
(* checkTask, tick and save; a load sets every task to the status the save *)
(* file holds, which is incomplete when the file was written earlier.      *)
C6_DoneStaysDoneUntilLoad ==
  [][/\ lastOp'.op \notin {"load", "reset"} =>
          \A tid \in TaskIds : Status(tid) = "done" => Status(tid)' = "done"
     /\ (lastOp'.op = "load" /\ lastOp'.msg = "loaded") =>
          \A tid \in TaskIds :
             Status(tid)' = Get(savefile[1].state.tasks, tid, "incomplete")]_vars

(* C6 witness: two tasks done, the first still done after the second check *)
C6_Witness ==
  /\ lastOp.op = "check" /\ lastOp.msg = "task_done"
  /\ \E tid \in TaskIds \ {lastOp.arg} : Status(tid) = "done"

(* C7: a tick that brings station_progress to 100 or more adds the tick    *)
(* gain plus exactly 1000 to scrap and leaves station_progress = 0.        *)
C7_TickCompletesStation ==
  [][\A e \in ElapsedValues :
       LET gain == scrap_per_second * e
           points == ScaledDiv(gain, ProgressUnit, 500 * ScrapUnit)
       IN (Ticked(e) /\ station_progress + points >= 100 * ProgressUnit) =>
            /\ scrap' = scrap + gain + 1000 * ScrapUnit
            /\ station_progress' = 0
            /\ lastOp'.msg = "station_ready"]_vars

(* C7 witness: a tick with a passive gain has just completed the station *)
C7_Witness ==
  /\ lastOp.op = "tick" /\ lastOp.msg = "station_ready"
  /\ lastOp.arg > 0 /\ scrap_per_second > 0
  /\ station_progress = 0

(* C8: a tick that does not bring station_progress to 100 adds             *)
(* gain = scrap_per_second * elapsed to scrap and to total_scrap_earned,   *)
(* adds gain / 500 to station_progress and changes nothing else.           *)
C8_TickAccrues ==
  [][\A e \in ElapsedValues :
       LET gain == scrap_per_second * e
           points == ScaledDiv(gain, ProgressUnit, 500 * ScrapUnit)
       IN (Ticked(e) /\ station_progress + points < 100 * ProgressUnit) =>
            /\ scrap' = scrap + gain
            /\ total_scrap_earned' = total_scrap_earned + gain
            /\ station_progress' = station_progress + points
            /\ UNCHANGED <<scrap_per_click, scrap_per_second, total_clicks,
                           upgrades, tasks>>]_vars

(* C8 witness: a tick with a passive gain that left the station unfinished *)
C8_Witness ==
  /\ lastOp.op = "tick" /\ lastOp.msg = "none"
  /\ lastOp.arg > 0 /\ scrap_per_second > 0
  /\ station_progress > 0

(* C9: total_scrap_earned is the gross currency earned: every step adds to *)
(* it what the step earned, be it a click gain, a passive tick gain or a   *)
(* task reward (no load or reset in the run; it starts as the sum of the   *)
(* click gains of the earlier run).                                        *)
C9_TotalCountsAllEarnings ==
  [][LET earned ==
           CASE lastOp'.op = "click" -> scrap_per_click
             [] lastOp'.op = "tick" -> scrap_per_second * lastOp'.arg
             [] lastOp'.op = "check" /\ lastOp'.msg = "task_done" ->
                  TASK_DEFS[lastOp'.arg].reward
             [] OTHER -> 0
     IN total_scrap_earned' = total_scrap_earned + earned]_vars

(* C10: a load that immediately follows a save restores every persisted    *)
(* field to the value it had when the save was made.                       *)
C10_SaveThenLoadRestores ==
  [][(lastOp.op = "save" /\ lastOp'.op = "load") =>
       /\ lastOp'.msg = "loaded"
       /\ UNCHANGED gameVars]_vars

(* C10 witness: a load right after a save, with upgrades and a done task *)
C10_Witness ==
  /\ lastOp.op = "load" /\ lastOp.arg = "save" /\ lastOp.msg = "loaded"
  /\ DOMAIN upgrades # {}
  /\ \E tid \in TaskIds : Status(tid) = "done"

(* C11: a check of an incomplete task marks it done and adds exactly its   *)
(* reward to scrap if and only if its target is met (scrap_total:          *)
(* total_scrap_earned or scrap at least the threshold; clicks:             *)
(* total_clicks; station_progress: station_progress); otherwise the check  *)
(* changes no state.                                                       *)
C11_CheckGrantsIffTargetMet ==
  [][\A tid \in TaskIds :
       (Checked(tid) /\ Status(tid) # "done") =>
          LET t == TASK_DEFS[tid]
              met == \/ /\ t.ttype = "scrap_total"
                        /\ (total_scrap_earned >= t.tval \/ scrap >= t.tval)
                     \/ /\ t.ttype = "clicks"
                        /\ total_clicks >= t.tval
                     \/ /\ t.ttype = "station_progress"
                        /\ station_progress >= t.tval
          IN IF met
             THEN /\ lastOp'.msg = "task_done"
                  /\ Status(tid)' = "done"
                  /\ scrap' = scrap + t.reward
                  /\ \A other \in TaskIds \ {tid} : Status(other)' = Status(other)
                  /\ UNCHANGED <<scrap_per_click, scrap_per_second, upgrades,
                                 station_progress, total_clicks,
                                 total_scrap_earned>>
             ELSE /\ lastOp'.msg = "not_ready"
                  /\ UNCHANGED gameVars]_vars

(* C11 witness: click_50 checked off at exactly 50 clicks *)
C11_Witness ==
  /\ lastOp.op = "check" /\ lastOp.arg = "click_50" /\ lastOp.msg = "task_done"
  /\ total_clicks = TASK_DEFS["click_50"].tval

(* C12: for every upgrade, cost(u, 0) is the base cost and the cost grows  *)
(* strictly with the owned count, so the price offered after a purchase is *)
(* higher than the price just paid.                                        *)
C12_CostStrictlyGrows ==
  \A u \in UpgradeIds :
    /\ cost(u, 0) = UPGRADE_DEFS[u].base_cost
    /\ \A n \in 0..MaxCount : cost(u, n + 1) > cost(u, n)
    /\ Owned(u) > 0 => CostNow(u) > cost(u, Owned(u) - 1) * ScrapUnit

(* C12 witness: the same upgrade bought twice, the second time for more *)
C12_Witness ==
  /\ lastOp.op = "buy" /\ lastOp.msg = "none"
  /\ Owned(lastOp.arg) = 2

(* C13 as stated: total_clicks never decreases under click, buy, check,    *)
(* tick, save or load; only a reset sets it back.                          *)
C13_ClicksOnlyResetDecreases ==
  [][lastOp'.op # "reset" => total_clicks' >= total_clicks]_vars

(* C13 amended: total_clicks never decreases under click, buy, check, tick *)
(* or save; a load sets it to the count stored in the save file (leaving   *)
(* it alone when there is no file), which may be smaller than the current  *)
(* count; a confirmed reset sets it to 0.                                  *)
C13_ClicksDecreaseOnlyByLoadOrReset ==
  [][/\ lastOp'.op \in {"click", "buy", "check", "tick", "save"} =>
          total_clicks' >= total_clicks
     /\ (lastOp'.op = "load" /\ Len(savefile) > 0) =>
          total_clicks' = savefile[1].total_clicks
     /\ (lastOp'.op = "load" /\ Len(savefile) = 0) =>
          total_clicks' = total_clicks
     /\ (lastOp'.op = "reset" /\ lastOp'.msg = "confirmed") =>
          total_clicks' = 0]_vars

(* C13 witness: a load right after a click, back at the saved count *)
C13_Witness ==
  /\ lastOp.op = "load" /\ lastOp.arg = "click" /\ lastOp.msg = "loaded"
  /\ total_clicks = ResumeClicks

(* C14: a confirmed reset leaves the fresh defaults (scrap 0, 1.0 per      *)
(* click, 0 per second, no upgrades, every task incomplete, progress 0),   *)
(* both counters 0, and no save file.                                      *)
C14_ResetGivesFreshState ==
  [][(lastOp'.op = "reset" /\ lastOp'.msg = "confirmed") =>
       /\ scrap' = 0
       /\ scrap_per_click' = 1 * ScrapUnit
       /\ scrap_per_second' = 0
       /\ \A u \in UpgradeIds : Owned(u)' = 0
       /\ \A tid \in TaskIds : Status(tid)' # "done"
       /\ task_buttons' = TaskIds
       /\ station_progress' = 0
       /\ total_clicks' = 0
       /\ total_scrap_earned' = 0
       /\ Len(savefile') = 0]_vars

(* C14 witness: a confirmed reset right after a save, the file now gone *)
C14_Witness ==
  /\ lastOp.op = "reset" /\ lastOp.arg = "save" /\ lastOp.msg = "confirmed"
  /\ Len(savefile) = 0

(* The state N clicks after the fresh state, nothing else having happened *)
ClickedOnly(N) ==
  /\ scrap = N * scrap_per_click
  /\ total_clicks = N
  /\ total_scrap_earned = N * scrap_per_click
  /\ scrap_per_click = 1 * ScrapUnit
  /\ scrap_per_second = 0
  /\ upgrades = EmptyDict
  /\ tasks = EmptyDict
  /\ station_progress = 0

C16_BuyNeverCompletesStation ==
  [][/\ \A u \in UpgradeIds :
          (Bought(u) /\ lastOp'.msg # "insufficient"
             /\ UPGRADE_DEFS[u].effect_type = "progress") =>
            LET raised == station_progress + UPGRADE_DEFS[u].effect_value
            IN /\ station_progress' = IF raised > 100 * ProgressUnit
                                      THEN 100 * ProgressUnit ELSE raised
               /\ station_progress' >= station_progress
               /\ scrap' = scrap - CostNow(u)
     /\ lastOp'.op = "buy" => (scrap' <= scrap /\ lastOp'.msg # "station_ready")
     /\ lastOp'.msg = "station_ready" => lastOp'.op = "tick"]_vars

(* C16 witness: a module bought with passive income running has left the *)
(* station at exactly 100 points, unrewarded                             *)
C16_Witness ==
  /\ lastOp = [op |-> "buy", arg |-> "station_module", msg |-> "none"]
  /\ scrap_per_second > 0
  /\ station_progress = 100 * ProgressUnit

(* C17: a click, a purchase and a tick never change the status of a task   *)
(* and never add a task reward to scrap; a task becomes done only through  *)
(* a check of that task.                                                   *)
C17_OnlyCheckCompletesTasks ==
  [][/\ lastOp'.op \in {"click", "buy", "tick"} =>
          /\ \A tid \in TaskIds : Status(tid)' = Status(tid)
          /\ UNCHANGED <<tasks, task_buttons>>
     /\ lastOp'.op = "click" => scrap' = scrap + scrap_per_click
     /\ lastOp'.op = "buy" => scrap' \in {scrap, scrap - CostNow(lastOp'.arg)}
     /\ lastOp'.op = "tick" =>
          scrap' = scrap + scrap_per_second * lastOp'.arg
                     + (IF lastOp'.msg = "station_ready"
                        THEN 1000 * ScrapUnit ELSE 0)
     /\ \A tid \in TaskIds :
          (Status(tid) # "done" /\ Status(tid)' = "done") => Checked(tid)]_vars

(* C17 witness: the click that met the target of click_50 left the task *)
(* incomplete and its check button in place                             *)
C17_Witness ==
  /\ lastOp.op = "click"
  /\ total_clicks >= TASK_DEFS["click_50"].tval
  /\ Status("click_50") # "done"
  /\ "click_50" \in task_buttons

(* C18: one tick pays the 1000 reward at most once and resets the progress *)
(* once, even when gain / 500 is worth several times 100 points: scrap     *)
(* grows by gain + 1000 and station_progress is 0 afterwards.              *)
C18_OneRewardPerTick ==
  [][\A e \in ElapsedValues :
       LET gain == scrap_per_second * e
           points == ScaledDiv(gain, ProgressUnit, 500 * ScrapUnit)
       IN Ticked(e) =>
            /\ scrap' - scrap - gain \in {0, 1000 * ScrapUnit}
            /\ points >= 2 * (100 * ProgressUnit) =>
                 /\ scrap' = scrap + gain + 1000 * ScrapUnit
                 /\ total_scrap_earned' = total_scrap_earned + gain
                 /\ station_progress' = 0]_vars

(* C18 witness: a tick whose gain was worth 200 points or more *)
C18_Witness ==
  /\ lastOp.op = "tick" /\ lastOp.msg = "station_ready"
  /\ scrap_per_second * lastOp.arg >= 200 * (500 * ScrapUnit)
  /\ station_progress = 0

(* C19: a tick that starts with station_progress at 100 (reached through   *)
(* purchases) pays the reward and resets the progress to 0 even when its   *)
(* gain is 0; until that tick, no click, purchase or check moves the       *)
(* progress away from 100.                                                 *)
C19_FullStationWaitsForTick ==
  [][station_progress = 100 * ProgressUnit =>
       IF lastOp'.op = "tick"
       THEN /\ lastOp'.msg = "station_ready"
            /\ scrap' = scrap + scrap_per_second * lastOp'.arg
                          + 1000 * ScrapUnit
            /\ station_progress' = 0
       ELSE station_progress' = 100 * ProgressUnit]_vars

(* C19 witness: a tick with no time elapsed, hence no gain, has paid the *)
(* reward for a station that a purchase had brought to 100               *)
C19_Witness ==
  /\ lastOp = [op |-> "tick", arg |-> 0, msg |-> "station_ready"]
  /\ Owned("station_module") > 0
  /\ station_progress = 0

(* C20: in every reachable state (click, buy, check, tick, reset, and save *)
(* and load of saves the game itself wrote) scrap_per_click is 1 plus the  *)
(* owned count times the effect value of every click upgrade, and          *)
(* scrap_per_second is the same sum over the aps upgrades.                 *)
C20_RatesMatchUpgrades ==
  LET part(u, kind) == IF UPGRADE_DEFS[u].effect_type = kind
                       THEN Owned(u) * UPGRADE_DEFS[u].effect_value ELSE 0
      total(kind) == part("laser_tools", kind) + part("magnet_drones", kind)
                       + part("scrap_refinery", kind)
                       + part("reinforced_hull", kind)
                       + part("station_module", kind)
  IN /\ scrap_per_click = 1 * ScrapUnit + total("click")
     /\ scrap_per_second = total("aps")

(* C20 witness: a save with an upgrade in it has been loaded back *)
C20_Witness ==
  /\ lastOp.op = "load" /\ lastOp.msg = "loaded"
  /\ \E u \in UpgradeIds : Owned(u) > 0
  /\ scrap_per_click + scrap_per_second > 1 * ScrapUnit

====
